---- MODULE Spec2Model ----
(***************************************************************************)
(* Job lifecycle and notification dispatch of Huntly.                      *)
(*                                                                         *)
(*   - the job store (storage.py: one sqlite table keyed by job_id),       *)
(*   - ingestion (proposal_pipeline.handle_new_job),                       *)
(*   - the dispatch loop (proposal_pipeline: the dedicated event loop, its *)
(*     call_soon_threadsafe callbacks, the asyncio.Queue and the single    *)
(*     _sender_worker task running _send_interest),                        *)
(*   - the review state machine (telegram_bot.on_callback), one step per   *)
(*     store operation and per outcome of an await that precedes one,      *)
(*   - the page loop of the scraper and the plain notifications.           *)
(*                                                                         *)
(* Strings are sequences of tokens: a token is a literal piece of the      *)
(* string, so that strip, split and tag removal are computed on them.      *)
(***************************************************************************)
EXTENDS FiniteSets, Integers, Sequences, TLC

\* ---------------------------------------------------------------- bounds
MaxIngest == 2      \* handle_new_job calls in one behaviour
MaxActions == 3     \* operator actions (button presses) in one behaviour
MaxTextLen == 2     \* tokens in a raw completion of the generation model
MaxPages == 2       \* listing pages parsed by scrape in one behaviour
MaxNotify == 2      \* notify calls in one behaviour

\* ------------------------------------------------------------- text model
SP == " "

RECURSIVE LStrip(_)
LStrip(s) == IF s = <<>> THEN s
             ELSE IF Head(s) = SP THEN LStrip(Tail(s)) ELSE s

RECURSIVE RStrip(_)
RStrip(s) == IF s = <<>> THEN s
             ELSE IF s[Len(s)] = SP THEN RStrip(SubSeq(s, 1, Len(s) - 1)) ELSE s

\* str.strip()
Strip(s) == RStrip(LStrip(s))

Tags == {"<b>", "</b>", "<br/>"}

\* the text nodes of a parsed fragment: the maximal runs between two tags
RECURSIVE TextNodes(_, _)
TextNodes(s, cur) ==
    IF s = <<>> THEN <<cur>>
    ELSE IF Head(s) \in Tags THEN <<cur>> \o TextNodes(Tail(s), <<>>)
    ELSE TextNodes(Tail(s), Append(cur, Head(s)))

\* get_text(" ", strip=True): stripped non-empty text nodes joined by " "
RECURSIVE JoinNodes(_)
JoinNodes(ns) ==
    IF ns = <<>> THEN <<>>
    ELSE LET h == Strip(Head(ns))
             r == JoinNodes(Tail(ns))
         IN  IF h = <<>> THEN r
             ELSE IF r = <<>> THEN h
             ELSE h \o <<SP>> \o r

strip_html(text) == IF text = <<>> THEN <<>> ELSE JoinNodes(TextNodes(text, <<>>))

\* ---------------------------------------------------------------- urls
U42 == "https://x.test/job/42"
U43 == "https://x.test/job/43"
UFtp == "ftp://x.test/job/42"

\* url.startswith("http")
StartsWithHttp(url) == url # <<>> /\ Head(url) \in {U42, U43}

\* url.split("?")[0]
RECURSIVE SplitQuery(_)
SplitQuery(url) ==
    IF url = <<>> THEN <<>>
    ELSE IF Head(url) = "?" THEN <<>>
    ELSE <<Head(url)>> \o SplitQuery(Tail(url))

\* hashlib.sha1(url.encode("utf-8")).hexdigest()[:12]
make_job_id(url) ==
    CASE url = <<U42>> -> "3a55e8f8da82"
      [] url = <<U43>> -> "9719024ca7e8"
      [] url = <<U42, "?", "ref=abc">> -> "772327b89408"
      [] url = <<U43, "?", "ref=abc">> -> "a9288453bdfc"
      [] url = <<UFtp>> -> "0897c4c0d3d2"

JobIds == {"3a55e8f8da82", "9719024ca7e8"}

\* raw job records handle_new_job can be called with
RawJobs ==
    { [url |-> <<U42>>, title |-> <<"T">>, short_description |-> <<"D">>,
       budget |-> <<"B">>, date |-> <<"F">>],
      [url |-> <<SP, U42, "?", "ref=abc", SP>>, title |-> <<"<b>", "T2", "</b>">>,
       short_description |-> <<"D", "<br/>", "E">>, budget |-> <<>>, date |-> <<"G">>],
      [url |-> <<U43, "?", "ref=abc">>, title |-> <<"T">>, short_description |-> <<"D">>,
       budget |-> <<"B">>, date |-> <<"F">>],
      [url |-> <<UFtp>>, title |-> <<"T">>, short_description |-> <<"D">>,
       budget |-> <<"B">>, date |-> <<"F">>],
      [url |-> <<SP>>, title |-> <<"T">>, short_description |-> <<"D">>,
       budget |-> <<"B">>, date |-> <<"F">>],
      [title |-> <<"T">>, short_description |-> <<"D">>,
       budget |-> <<"B">>, date |-> <<"F">>] }

\* ---------------------------------------------------------------- state
VARIABLES
    store,            \* the jobs table: job_id -> row
    clock,            \* datetime.utcnow(), one tick per insert
    telegramEnabled,  \* NOTIFY_TELEGRAM
    nIngest,          \* handle_new_job calls so far
    producer,         \* the scraper: "running", "raised" once a call raised, or "exited"
                      \* once the main thread, and with it the process, has ended
    ready,            \* callbacks handed to the loop by call_soon_threadsafe
    queue,            \* _queue
    workerPc,         \* _sender_worker: "get" (at _queue.get), "await" (at _send_interest)
                      \* or "dead" (the task ended with an exception)
    deliveries,       \* running _send_interest coroutines
    entryJob,         \* history: job id of the n-th entry, in call order
    started,          \* history: send attempts started for the n-th entry
    outcomes,         \* history: outcomes of the attempts of the n-th entry
    resolved,         \* history: entries for which task_done was called
    slept,            \* history: time units waited after each failed attempt of the n-th entry
    idLog,            \* history: the raw jobs handled and the job_id each was given
    taskDone,         \* history: _queue.task_done() calls made for the n-th entry
    caught,           \* history: entries whose exception reached the except of _sender_worker
    seenUrls,         \* scrape: seen_urls
    pending,          \* scrape: the new_jobs of the page not yet passed to handle_new_job
    handled,          \* history: the job_url of every job passed to handle_new_job by scrape
    skipped,          \* history: the job_urls scrape skipped because they were in seen_urls
    nPages,           \* scrape: pages parsed so far
    maxAgeOn,         \* scrape: max_age_hours is not None
    notifyLog,        \* history: the notify calls, their cfg and their send attempts
    scraper,          \* which scraper runs: "huntly", "legacy", or "none" before its start
    spc,              \* scraper: "start", "fetch" (top of the page loop), "handle", "notify"
                      \* (the two loops over new_jobs) or "done" (scrape returned)
    notifyCfg,        \* scrape: notify_config
    newJobs,          \* scrape: new_jobs of the page at hand
    toNotify,         \* scrape: the new_jobs of the page not yet notified
    nAllJobs,         \* scrape: len(all_jobs)
    hpc,              \* on_callback: position of each handler (the statement it is at)
    hact,             \* on_callback: action of the current / last update
    hid,              \* on_callback: job_id of the current / last update
    hjob,             \* on_callback: local job
    hprop,            \* on_callback: local proposal
    hlast,            \* history: how the last update of each handler ended
    hcount,           \* history: updates begun by each handler
    genCalls,         \* history: generar_propuesta calls per job
    approves,         \* history: approve actions that reached the submission, per job
    submits,          \* history: send_proposal_to_workana calls per job
    submitLog         \* history: arguments of the send_proposal_to_workana calls

storeVars == <<store, clock, telegramEnabled, nIngest, producer>>
loopVars == <<ready, queue, workerPc, deliveries>>
loopHist == <<started, outcomes, resolved, slept, taskDone, caught>>
scrapeVars == <<seenUrls, pending, handled, skipped, nPages, maxAgeOn, notifyLog,
                scraper, spc, notifyCfg, newJobs, toNotify, nAllJobs>>
handlerVars == <<hpc, hact, hid, hjob, hprop>>
handlerHist == <<hlast, hcount, genCalls, approves, submits, submitLog>>
vars == <<storeVars, loopVars, entryJob, idLog, loopHist, handlerVars, handlerHist, scrapeVars>>

\* the two on_callback handlers of the repository, each bound to an
\* Application that processes one update at a time
Handlers == {"legacy", "huntly"}

Statuses == {"pending_interest", "generating", "pending_send", "sent", "ignored", "error"}

NoJob == [job_id |-> "", url |-> <<>>, title |-> <<>>, description |-> <<>>,
          budget |-> <<>>, date |-> <<>>, proposal |-> <<>>, status |-> ""]

\* ---------------------------------------------------------------- store
\* INSERT OR REPLACE: the row of job_id is replaced as a whole
upsert_job_keeps_proposal(st, job_id, url, title, description, budget, date, proposal, status, now) ==
    [k \in DOMAIN st \cup {job_id} |->
        IF k = job_id
        THEN [job_id |-> job_id, url |-> url, title |-> title,
              description |-> description, budget |-> budget, date |-> date,
              proposal |-> IF k \in DOMAIN st THEN st[k].proposal ELSE proposal,
              status |-> status, created_at |-> now]
        ELSE st[k]]
upsert_job_truncates(st, job_id, url, title, description, budget, date, proposal, status, now) ==
    [k \in {job_id} |->
        [job_id |-> job_id, url |-> url, title |-> title,
         description |-> description, budget |-> budget, date |-> date,
         proposal |-> proposal, status |-> status, created_at |-> now]]
upsert_job(st, job_id, url, title, description, budget, date, proposal, status, now) ==
    [k \in DOMAIN st \cup {job_id} |->
        IF k = job_id
        THEN [job_id |-> job_id, url |-> url, title |-> title,
              description |-> description, budget |-> budget, date |-> date,
              proposal |-> proposal, status |-> status, created_at |-> now]
        ELSE st[k]]

\* SELECT ... WHERE job_id=?  (None is NoJob)
get_job(st, job_id) ==
    IF job_id \in DOMAIN st
    THEN [job_id |-> st[job_id].job_id, url |-> st[job_id].url,
          title |-> st[job_id].title, description |-> st[job_id].description,
          budget |-> st[job_id].budget, date |-> st[job_id].date,
          proposal |-> st[job_id].proposal, status |-> st[job_id].status]
    ELSE NoJob

\* UPDATE jobs SET status=? WHERE job_id=?
set_status_clears_proposal(st, job_id, status) ==
    [k \in DOMAIN st |->
        IF k = job_id THEN [st[k] EXCEPT !.status = status, !.proposal = <<>>] ELSE st[k]]
set_status(st, job_id, status) ==
    [k \in DOMAIN st |-> IF k = job_id THEN [st[k] EXCEPT !.status = status] ELSE st[k]]

\* UPDATE jobs SET proposal=?, status=? WHERE job_id=?
set_proposal_keeps_status(st, job_id, proposal, status) ==
    [k \in DOMAIN st |-> IF k = job_id THEN [st[k] EXCEPT !.proposal = proposal] ELSE st[k]]
set_proposal(st, job_id, proposal, status) ==
    [k \in DOMAIN st |->
        IF k = job_id THEN [st[k] EXCEPT !.proposal = proposal, !.status = status]
        ELSE st[k]]

\* ---------------------------------------------------------------- init
Init ==
    /\ store = <<>>
    /\ clock = 1
    /\ telegramEnabled \in BOOLEAN
    /\ nIngest = 0
    /\ producer = "running"
    /\ ready = <<>>
    /\ queue = <<>>
    /\ workerPc = "get"
    /\ deliveries = {}
    /\ entryJob = <<>>
    /\ started = <<>>
    /\ outcomes = <<>>
    /\ resolved = {}
    /\ slept = <<>>
    /\ idLog = {}
    /\ taskDone = <<>>
    /\ caught = {}
    /\ seenUrls = {}
    /\ pending = <<>>
    /\ handled = <<>>
    /\ skipped = {}
    /\ nPages = 0
    /\ maxAgeOn = FALSE
    /\ notifyLog = <<>>
    /\ scraper = "none"
    /\ spc = "start"
    /\ notifyCfg = [present |-> FALSE, notify_email |-> FALSE, notify_telegram |-> FALSE]
    /\ newJobs = <<>>
    /\ toNotify = <<>>
    /\ nAllJobs = 0
    /\ hpc = [h \in Handlers |-> "idle"]
    /\ hact = [h \in Handlers |-> ""]
    /\ hid = [h \in Handlers |-> ""]
    /\ hjob = [h \in Handlers |-> NoJob]
    /\ hprop = [h \in Handlers |-> <<>>]
    /\ hlast = [h \in Handlers |-> "none"]
    /\ hcount = [h \in Handlers |-> 0]
    /\ genCalls = [j \in JobIds |-> 0]
    /\ approves = [j \in JobIds |-> 0]
    /\ submits = [j \in JobIds |-> 0]
    /\ submitLog = {}

\* ------------------------------------------------------------ ingestion
\* url = url.split("?")[0]; job_id = make_job_id(url)
JobIdOfUnsplit(url0) == make_job_id(url0)
JobIdOf(url0) == make_job_id(SplitQuery(url0))

\* _loop.call_soon_threadsafe(_enqueue) hands the callback over and returns:
\* the caller waits for neither the worker nor the queue
EnqueueWaitsForDelivery(ds, q) == ds # {} \/ q # <<>>
EnqueueWaits(ds, q) == FALSE

\* job.get("url") or ""
GetUrl(job) == IF "url" \in DOMAIN job THEN job.url ELSE <<>>

\* if not url or not url.startswith("http"): return
RejectsEmptyUrlOnly(url0) == url0 = <<>>
RejectsUrl(url0) == url0 = <<>> \/ ~StartsWithHttp(url0)

\* telegram_enabled(): NOTIFY_TELEGRAM is "true"
telegram_enabled_always(env) == TRUE
telegram_enabled(env) == env

\* status="pending_interest"
InitialStatusNew == "new"
InitialStatus == "pending_interest"

\* how the sqlite write of upsert_job can end
UpsertOutcomes == {"ok", "raises"}

\* handle_new_job(job); an exception of upsert_job leaves handle_new_job and
\* the scrape loop that called it
HandleNewJob(job) ==
    /\ nIngest < MaxIngest
    /\ producer = "running"
    /\ ~EnqueueWaits(deliveries, queue)
    /\ nIngest' = nIngest + 1
    /\ UNCHANGED <<telegramEnabled, queue, workerPc, deliveries, resolved, caught,
                   handlerVars, handlerHist>>
    /\ LET url0 == Strip(GetUrl(job)) IN
       IF RejectsUrl(url0)
       THEN UNCHANGED <<store, clock, producer, ready, entryJob, idLog, started, outcomes, slept,
                        taskDone>>
       ELSE \E outcome \in UpsertOutcomes :
            IF outcome = "raises"
            THEN /\ producer' = "raised"
                 /\ UNCHANGED <<store, clock, ready, entryJob, idLog, started, outcomes, slept,
                                taskDone>>
            ELSE
            LET url == SplitQuery(url0)
                job_id == JobIdOf(url0)
            IN  /\ store' = upsert_job(store, job_id, url,
                                       strip_html(job.title),
                                       strip_html(job.short_description),
                                       strip_html(job.budget),
                                       strip_html(job.date),
                                       <<>>, InitialStatus, clock)
                /\ clock' = clock + 1
                /\ UNCHANGED producer
                /\ idLog' = idLog \cup {[job |-> job, job_id |-> job_id]}
                /\ IF telegram_enabled(telegramEnabled)
                   THEN /\ ready' = Append(ready, [n |-> Len(entryJob) + 1,
                                                   job |-> job, job_id |-> job_id])
                        /\ entryJob' = Append(entryJob, job_id)
                        /\ started' = Append(started, 0)
                        /\ outcomes' = Append(outcomes, <<>>)
                        /\ slept' = Append(slept, <<>>)
                        /\ taskDone' = Append(taskDone, 0)
                   ELSE UNCHANGED <<ready, entryJob, started, outcomes, slept, taskDone>>

Ingest == \E job \in RawJobs : HandleNewJob(job) /\ UNCHANGED scrapeVars

\* -------------------------------------------------------- dispatch loop
\* for attempt in range(1, 4)
MaxAttempts == 3

\* asyncio.Queue(): maxsize 0, the queue is never full
QueueMaxSize == 0

\* Queue.full()
QueueFull(q) == QueueMaxSize > 0 /\ Len(q) >= QueueMaxSize

\* the loop thread is a daemon: it runs as long as the process does
LoopRuns == producer # "exited"

\* the loop runs the oldest _enqueue callback: _queue.put_nowait((job, job_id));
\* on QueueFull the error is printed and the entry is lost
RunEnqueue ==
    /\ LoopRuns
    /\ ready # <<>>
    /\ queue' = IF QueueFull(queue) THEN queue ELSE Append(queue, Head(ready))
    /\ ready' = Tail(ready)
    /\ UNCHANGED <<storeVars, workerPc, deliveries, entryJob, idLog, loopHist,
                   handlerVars, handlerHist, scrapeVars>>

\* asyncio.Queue.get(): the oldest item
QueueGetLifo(q) == [item |-> q[Len(q)], rest |-> SubSeq(q, 1, Len(q) - 1)]
QueueGet(q) == [item |-> Head(q), rest |-> Tail(q)]

\* the worker awaits _send_interest before it gets the next item
WorkerNoAwait == "get"
WorkerAwait == "await"

\* _sender_worker: job, job_id = await _queue.get(); _send_interest starts
\* and makes its first bot.send_message call
WorkerGet ==
    /\ LoopRuns
    /\ workerPc = "get"
    /\ queue # <<>>
    /\ LET e == QueueGet(queue).item IN
       /\ queue' = QueueGet(queue).rest
       /\ deliveries' = deliveries \cup
                          {[entry |-> e, attempt |-> 1, phase |-> "send", remaining |-> 0]}
       /\ started' = [started EXCEPT ![e.n] = @ + 1]
    /\ workerPc' = WorkerAwait
    /\ UNCHANGED <<storeVars, ready, entryJob, idLog, outcomes, resolved, slept, taskDone,
                   caught, handlerVars, handlerHist, scrapeVars>>

\* the return after a successful bot.send_message ends _send_interest
SendOkFallsThrough(d) == d.attempt = MaxAttempts
SendOkReturns(d) == TRUE

\* bot.send_message returns: _send_interest returns, the worker calls task_done
SendOk(d) ==
    /\ LoopRuns
    /\ d \in deliveries
    /\ d.phase = "send"
    /\ outcomes' = [outcomes EXCEPT ![d.entry.n] = Append(@, "ok")]
    /\ IF SendOkReturns(d)
       THEN /\ deliveries' = deliveries \ {d}
            /\ resolved' = resolved \cup {d.entry.n}
            /\ taskDone' = [taskDone EXCEPT ![d.entry.n] = @ + 1]
            /\ workerPc' = "get"
            /\ UNCHANGED started
       ELSE /\ deliveries' = (deliveries \ {d}) \cup {[d EXCEPT !.attempt = @ + 1]}
            /\ started' = [started EXCEPT ![d.entry.n] = @ + 1]
            /\ UNCHANGED <<resolved, workerPc, taskDone>>
    /\ UNCHANGED <<storeVars, ready, queue, entryJob, idLog, slept, caught,
                   handlerVars, handlerHist, scrapeVars>>

\* await asyncio.sleep(attempt)  -- backoff: 1s, 2s
BackoffOne(attempt) == 1
Backoff(attempt) == attempt

\* if attempt == 3: the error is printed, nothing is written to the store
FinalFailureMarksError(st, job_id) == set_status(st, job_id, "error")
FinalFailure(st, job_id) == st

\* the return at the final failure ends _send_interest, the worker goes on
WorkerAfterDrop == "get"

\* how the print of the final error can end: an exception of it leaves
\* _send_interest
FinalPrintOutcomes == {"ok", "raises"}

\* except Exception in _sender_worker: the worker prints and goes on
WorkerAfterCaught == "get"

\* how the print in the except of _sender_worker can end
WorkerPrintOutcomes == {"ok", "raises"}

\* an exception of that print leaves the while loop once the finally has
\* called task_done: the worker task is over and nothing takes the queue
WorkerAfterPrintRaise == "dead"

\* bot.send_message (or the building of its arguments) raises; after the
\* third failure _send_interest ends and the finally of the worker calls task_done
SendFail(d) ==
    /\ LoopRuns
    /\ d \in deliveries
    /\ d.phase = "send"
    /\ outcomes' = [outcomes EXCEPT ![d.entry.n] = Append(@, "fail")]
    /\ IF d.attempt = MaxAttempts
       THEN /\ deliveries' = deliveries \ {d}
            /\ resolved' = resolved \cup {d.entry.n}
            /\ taskDone' = [taskDone EXCEPT ![d.entry.n] = @ + 1]
            /\ store' = FinalFailure(store, d.entry.job_id)
            /\ \E printed \in FinalPrintOutcomes :
                  IF printed = "raises"
                  THEN /\ caught' = caught \cup {d.entry.n}
                       /\ \E wprinted \in WorkerPrintOutcomes :
                             workerPc' = IF wprinted = "raises"
                                         THEN WorkerAfterPrintRaise
                                         ELSE WorkerAfterCaught
                  ELSE /\ workerPc' = WorkerAfterDrop
                       /\ UNCHANGED caught
            /\ UNCHANGED slept
       ELSE /\ deliveries' = (deliveries \ {d})
                               \cup {[d EXCEPT !.phase = "sleep",
                                               !.remaining = Backoff(d.attempt)]}
            /\ slept' = [slept EXCEPT ![d.entry.n] = Append(@, 0)]
            /\ UNCHANGED <<resolved, workerPc, store, taskDone, caught>>
    /\ UNCHANGED <<clock, telegramEnabled, nIngest, producer, ready, queue, entryJob, idLog,
                   started, handlerVars, handlerHist, scrapeVars>>

\* one time unit of asyncio.sleep(attempt) passes
Tick(d) ==
    /\ LoopRuns
    /\ d \in deliveries
    /\ d.phase = "sleep"
    /\ d.remaining > 0
    /\ deliveries' = (deliveries \ {d}) \cup {[d EXCEPT !.remaining = @ - 1]}
    /\ slept' = [slept EXCEPT ![d.entry.n][Len(slept[d.entry.n])] = @ + 1]
    /\ UNCHANGED <<storeVars, ready, queue, workerPc, entryJob, idLog, started, outcomes,
                   resolved, taskDone, caught, handlerVars, handlerHist, scrapeVars>>

\* asyncio.sleep(attempt) is over: the next attempt starts
Wake(d) ==
    /\ LoopRuns
    /\ d \in deliveries
    /\ d.phase = "sleep"
    /\ d.remaining = 0
    /\ deliveries' = (deliveries \ {d})
                        \cup {[d EXCEPT !.phase = "send", !.attempt = @ + 1]}
    /\ started' = [started EXCEPT ![d.entry.n] = @ + 1]
    /\ UNCHANGED <<storeVars, ready, queue, workerPc, entryJob, idLog, outcomes, resolved,
                   slept, taskDone, caught, handlerVars, handlerHist, scrapeVars>>

Deliver == \E d \in deliveries : SendOk(d) \/ SendFail(d) \/ Tick(d) \/ Wake(d)

NextDispatch == Ingest \/ RunEnqueue \/ WorkerGet \/ Deliver

SpecDispatch == Init /\ [][NextDispatch]_vars

\* the scraper returns after its pass (not in watch mode) or an exception
\* leaves it: the main thread ends, and the process with it, whatever the
\* daemon thread of the loop was doing
ProcessEnd ==
    /\ producer \in {"running", "raised"}
    /\ producer' = "exited"
    /\ UNCHANGED <<store, clock, telegramEnabled, nIngest, loopVars, entryJob, idLog, loopHist,
                   handlerVars, handlerHist, scrapeVars>>

NextDispatchLive == NextDispatch \/ ProcessEnd

\* as long as the process runs, the loop thread keeps running its callbacks
\* and the worker task, and every send attempt and every sleep returns; the
\* process can end at any time
SpecDispatchFair ==
    /\ Init /\ [][NextDispatchLive]_vars
    /\ WF_vars(RunEnqueue) /\ WF_vars(WorkerGet) /\ WF_vars(Deliver)

\* ------------------------------------------------- generation collaborator
Chars == {SP, "a", "["}

\* what the chat completion may hold as message.content
RawCompletions == UNION {[1..k -> Chars] : k \in 0..MaxTextLen}

\* texto.replace("[", "").replace("]", "")
RemoveBrackets(s) == SelectSeq(s, LAMBDA c : c \notin {"[", "]"})

\* generar_propuesta: the completion, stripped, then without brackets ("Tu
\* nombre" / "tu nombre" do not occur in texts over Chars)
generar_propuesta(content) == RemoveBrackets(Strip(content))

\* ------------------------------------------------- submission collaborator
\* send_proposal_to_workana of huntly.workana.sender returns True or raises
SubmitReturnsHuntly == {TRUE}

\* the legacy handler imports workana_sender: submit_proposal -> success boolean
SubmitReturnsLegacy == BOOLEAN

\* what the awaited submission call of handler h can evaluate to
SubmitReturns(h) == IF h = "legacy" THEN SubmitReturnsLegacy ELSE SubmitReturnsHuntly

\* ---------------------------------------------------- review state machine
\* if (job.get("proposal") or "").strip():
InterestAlwaysGenerates(job) == FALSE
InterestHasProposal(job) == Strip(job.proposal) # <<>>

\* if not proposal:
ApproveNeverRejects(proposal) == FALSE
ApproveNoProposal(proposal) == proposal = <<>>

\* where on_callback stands after the submission raised: the exception leaves
\* the handler
RetrySubmission == "submit_pending"
AfterSubmitRaise == "idle"

\* if not job:
JobNotFoundNever(job) == FALSE
JobNotFound(job) == job = NoJob

\* on_callback is over: the handler takes the next update.  The awaits that
\* follow the last store operation of a branch (reply_text, edit_message_text,
\* edit_message_reply_markup) change nothing, whether they return or raise,
\* and are part of the step that ends the branch
Finish(h, how) ==
    /\ hpc' = [hpc EXCEPT ![h] = "idle"]
    /\ hjob' = [hjob EXCEPT ![h] = NoJob]
    /\ hprop' = [hprop EXCEPT ![h] = <<>>]
    /\ hlast' = [hlast EXCEPT ![h] = how]

\* get_job(job_id) or job
GetJobOr(st, job_id, job) == IF get_job(st, job_id) = NoJob THEN job ELSE get_job(st, job_id)

\* an update reaches on_callback, which awaits query.answer()
Begin(h, action, job_id) ==
    /\ hpc[h] = "idle"
    /\ hcount["legacy"] + hcount["huntly"] < MaxActions
    /\ hcount' = [hcount EXCEPT ![h] = @ + 1]
    /\ hact' = [hact EXCEPT ![h] = action]
    /\ hid' = [hid EXCEPT ![h] = job_id]
    /\ hpc' = [hpc EXCEPT ![h] = "answer"]
    /\ UNCHANGED <<storeVars, scrapeVars, loopVars, entryJob, idLog, loopHist,
                   hjob, hprop, hlast, genCalls, approves, submits, submitLog>>

\* query.answer() raises: the exception leaves on_callback
AnswerRaise(h) ==
    /\ hpc[h] = "answer"
    /\ Finish(h, "answer_raised")
    /\ UNCHANGED <<storeVars, scrapeVars, loopVars, entryJob, idLog, loopHist,
                   hact, hid, hcount, genCalls, approves, submits, submitLog>>

\* where on_callback goes after the first get_job found the job
BranchOf(action) ==
    CASE action = "NO" -> "no_write"
      [] action = "INT" -> "int_read"
      [] action = "OK" -> "ok_read"

\* query.answer() returns: job = get_job(job_id); if not job: reply and return
Lookup(h) ==
    /\ hpc[h] = "answer"
    /\ LET job == get_job(store, hid[h]) IN
       IF JobNotFound(job)
       THEN Finish(h, "not_found")
       ELSE /\ hpc' = [hpc EXCEPT ![h] = BranchOf(hact[h])]
            /\ hjob' = [hjob EXCEPT ![h] = job]
            /\ UNCHANGED <<hprop, hlast>>
    /\ UNCHANGED <<storeVars, scrapeVars, loopVars, entryJob, idLog, loopHist,
                   hact, hid, hcount, genCalls, approves, submits, submitLog>>

\* action == "NO": set_status(job_id, "ignored")
IgnoreMark(h) ==
    /\ hpc[h] = "no_write"
    /\ store' = set_status(store, hid[h], "ignored")
    /\ Finish(h, "ignored")
    /\ UNCHANGED <<clock, telegramEnabled, nIngest, producer, scrapeVars, loopVars, entryJob,
                   idLog, loopHist, hact, hid, hcount, genCalls, approves, submits, submitLog>>

\* action == "INT": job = get_job(job_id) or job; a job with a proposal is
\* shown again
InterestRead(h) ==
    /\ hpc[h] = "int_read"
    /\ LET job == GetJobOr(store, hid[h], hjob[h]) IN
       IF InterestHasProposal(job)
       THEN Finish(h, "shown")
       ELSE /\ hpc' = [hpc EXCEPT ![h] = "int_write"]
            /\ hjob' = [hjob EXCEPT ![h] = job]
            /\ UNCHANGED <<hprop, hlast>>
    /\ UNCHANGED <<storeVars, scrapeVars, loopVars, entryJob, idLog, loopHist,
                   hact, hid, hcount, genCalls, approves, submits, submitLog>>

\* set_status(job_id, "generating"); await reply_text("Generando propuesta...")
InterestMark(h) ==
    /\ hpc[h] = "int_write"
    /\ store' = set_status(store, hid[h], "generating")
    /\ hpc' = [hpc EXCEPT ![h] = "gen_pending"]
    /\ UNCHANGED <<clock, telegramEnabled, nIngest, producer, scrapeVars, loopVars, entryJob,
                   idLog, loopHist, hact, hid, hjob, hprop, hlast, hcount, genCalls, approves,
                   submits, submitLog>>

\* reply_text("Generando propuesta...") is over: generar_propuesta(payload) is called
GenStart(h) ==
    /\ hpc[h] = "gen_pending"
    /\ hpc' = [hpc EXCEPT ![h] = "generating"]
    /\ genCalls' = [genCalls EXCEPT ![hid[h]] = @ + 1]
    /\ UNCHANGED <<storeVars, scrapeVars, loopVars, entryJob, idLog, loopHist, hact, hid, hjob, hprop,
                   hlast, hcount, approves, submits, submitLog>>

\* reply_text("Generando propuesta...") raises: the exception leaves
\* on_callback after set_status(job_id, "generating")
GenReplyRaise(h) ==
    /\ hpc[h] = "gen_pending"
    /\ Finish(h, "reply_raised")
    /\ UNCHANGED <<storeVars, scrapeVars, loopVars, entryJob, idLog, loopHist,
                   hact, hid, hcount, genCalls, approves, submits, submitLog>>

\* generar_propuesta returns: set_proposal(job_id, proposal, status="pending_send")
GenReturn(h, content) ==
    /\ hpc[h] = "generating"
    /\ LET proposal == Strip(generar_propuesta(content)) IN
       store' = set_proposal(store, hid[h], proposal, "pending_send")
    /\ Finish(h, "generated")
    /\ UNCHANGED <<clock, telegramEnabled, nIngest, producer, scrapeVars, loopVars, entryJob, idLog, loopHist,
                   hact, hid, hcount, genCalls, approves, submits, submitLog>>

\* generar_propuesta raises: the exception leaves on_callback
GenRaise(h) ==
    /\ hpc[h] = "generating"
    /\ Finish(h, "gen_failed")
    /\ UNCHANGED <<storeVars, scrapeVars, loopVars, entryJob, idLog, loopHist,
                   hact, hid, hcount, genCalls, approves, submits, submitLog>>

\* action == "OK": job = get_job(job_id) or job; proposal = its proposal,
\* stripped; without one the action is rejected, else reply_text("Abriendo
\* Workana...") is awaited
ApproveRead(h) ==
    /\ hpc[h] = "ok_read"
    /\ LET job == GetJobOr(store, hid[h], hjob[h])
           proposal == Strip(job.proposal)
       IN  IF ApproveNoProposal(proposal)
           THEN /\ Finish(h, "no_proposal")
                /\ UNCHANGED approves
           ELSE /\ hpc' = [hpc EXCEPT ![h] = "submit_pending"]
                /\ hjob' = [hjob EXCEPT ![h] = job]
                /\ hprop' = [hprop EXCEPT ![h] = proposal]
                /\ approves' = [approves EXCEPT ![hid[h]] = @ + 1]
                /\ UNCHANGED hlast
    /\ UNCHANGED <<storeVars, scrapeVars, loopVars, entryJob, idLog, loopHist,
                   hact, hid, hcount, genCalls, submits, submitLog>>

\* reply_text("Abriendo Workana...") is over: send_proposal_to_workana(job["url"], proposal)
SubmitStart(h) ==
    /\ hpc[h] = "submit_pending"
    /\ hpc' = [hpc EXCEPT ![h] = "submitting"]
    /\ submits' = [submits EXCEPT ![hid[h]] = @ + 1]
    /\ submitLog' = submitLog \cup
                      {[job_id |-> hid[h], url |-> hjob[h].url, proposal |-> hprop[h]]}
    /\ UNCHANGED <<storeVars, scrapeVars, loopVars, entryJob, idLog, loopHist, hact, hid, hjob, hprop,
                   hlast, hcount, genCalls, approves>>

\* reply_text("Abriendo Workana...") raises: the exception leaves on_callback
\* before the submission call
SubmitReplyRaise(h) ==
    /\ hpc[h] = "submit_pending"
    /\ Finish(h, "reply_raised")
    /\ UNCHANGED <<storeVars, scrapeVars, loopVars, entryJob, idLog, loopHist,
                   hact, hid, hcount, genCalls, approves, submits, submitLog>>

\* if ok: set_status(job_id, "sent") else: set_status(job_id, "error")
SubmitStatusAlwaysError(ok) == "error"
SubmitStatus(ok) == IF ok THEN "sent" ELSE "error"

\* send_proposal_to_workana returns ok
SubmitReturn(h, ok) ==
    /\ hpc[h] = "submitting"
    /\ ok \in SubmitReturns(h)
    /\ store' = set_status(store, hid[h], SubmitStatus(ok))
    /\ Finish(h, IF ok THEN "sent" ELSE "submit_false")
    /\ UNCHANGED <<clock, telegramEnabled, nIngest, producer, scrapeVars, loopVars, entryJob, idLog, loopHist,
                   hact, hid, hcount, genCalls, approves, submits, submitLog>>

\* send_proposal_to_workana raises: the exception leaves on_callback
SubmitRaise(h) ==
    /\ hpc[h] = "submitting"
    /\ hpc' = [hpc EXCEPT ![h] = AfterSubmitRaise]
    /\ hlast' = [hlast EXCEPT ![h] = "submit_raised"]
    /\ IF AfterSubmitRaise = "idle"
       THEN /\ hjob' = [hjob EXCEPT ![h] = NoJob]
            /\ hprop' = [hprop EXCEPT ![h] = <<>>]
       ELSE UNCHANGED <<hjob, hprop>>
    /\ UNCHANGED <<storeVars, scrapeVars, loopVars, entryJob, idLog, loopHist,
                   hact, hid, hcount, genCalls, approves, submits, submitLog>>

Callback == \E h \in Handlers, action \in {"NO", "INT", "OK"}, job_id \in JobIds :
                Begin(h, action, job_id)

\* the stretch of on_callback from query.answer() to the branch of the action
Route == \E h \in Handlers : AnswerRaise(h) \/ Lookup(h)

Ignore == \E h \in Handlers : IgnoreMark(h)

Interest == \E h \in Handlers : InterestRead(h) \/ InterestMark(h)

Generate == \E h \in Handlers :
                \/ GenStart(h) \/ GenReplyRaise(h) \/ GenRaise(h)
                \/ \E content \in RawCompletions : GenReturn(h, content)

Approve == \E h \in Handlers : ApproveRead(h)

Submit == \E h \in Handlers :
                \/ SubmitStart(h) \/ SubmitReplyRaise(h) \/ SubmitRaise(h)
                \/ \E ok \in BOOLEAN : SubmitReturn(h, ok)

\* The worker and the loop never read or write the store, and on_callback
\* never touches the loop or the queue: the review machine and the dispatch
\* loop meet only in handle_new_job, so each is checked with ingestion.
\* Every store operation of on_callback is a step of its own: each opens its
\* own sqlite connection, and the two handlers are separate programs on one
\* jobs.db.
Next == Ingest \/ Callback \/ Route \/ Ignore \/ Interest \/ Generate \/ Approve \/ Submit

Spec == Init /\ [][Next]_vars

\* ---------------------------------------------------------------- scraper
\* the two scrape programs of the repository: huntly/workana/scraper.py,
\* which main.py runs, and workana_scraper.py
Scrapers == {"huntly", "legacy"}

\* MAX_AGE_HOURS, when it is set
MaxAgeHours == 24

\* str.lower() of a token: every token of the model with an upper-case
\* letter is listed, the others are their own lower case
Lower(t) ==
    CASE t = "Hace" -> "hace"
      [] t = "F" -> "f"
      [] t = "G" -> "g"
      [] t = "T" -> "t"
      [] t = "T2" -> "t2"
      [] t = "T3" -> "t3"
      [] t = "D" -> "d"
      [] t = "E" -> "e"
      [] t = "B" -> "b"
      [] t = "Horas" -> "horas"
      [] t = "HORAS" -> "horas"
      [] t = "Minutos" -> "minutos"
      [] t = "Ayer" -> "ayer"
      [] t = "AYER" -> "ayer"
      [] t = "Ahora" -> "ahora"
      [] t = "Días" -> "días"
      [] t = "Dias" -> "dias"
      [] OTHER -> t

\* date_str.lower()
LowerText(text) == [i \in DOMAIN text |-> Lower(text[i])]

\* the tokens that hold a word as a substring
TokensWith(word) ==
    CASE word = "minuto" -> {"minuto", "minutos"}
      [] word = "hora" -> {"hora", "horas", "ahora"}
      [] word = "ayer" -> {"ayer"}
      [] word = "día" -> {"día", "días"}
      [] word = "dia" -> {"dia", "dias"}

\* word in low_date
Contains(text, word) == \E i \in DOMAIN text : text[i] \in TokensWith(word)

\* the tokens made of digits, and int() of them
DigitTokens == {"1", "2", "3", "25", "30"}
IntOf(t) ==
    CASE t = "1" -> 1
      [] t = "2" -> 2
      [] t = "3" -> 3
      [] t = "25" -> 25
      [] t = "30" -> 30

\* re.search(r"(\d+)", low_date): the first run of digits, <<>> when there
\* is no match
RECURSIVE SearchDigits(_)
SearchDigits(text) ==
    IF text = <<>> THEN <<>>
    ELSE IF Head(text) \in DigitTokens THEN <<IntOf(Head(text))>>
    ELSE SearchDigits(Tail(text))

\* a number of hours as the fraction num / den
Hours(num, den) == [num |-> num, den |-> den]

\* parse_age_to_hours: minutes are the number / 60 (0 without a number),
\* hours the number (1 without), "ayer" is 24, days are the number * 24 (24
\* without), and a date with none of these words is 999
parse_age_to_hours(date) ==
    LET low_date == LowerText(date)
        match == SearchDigits(low_date)
    IN  IF Contains(low_date, "minuto")
        THEN (IF match # <<>> THEN Hours(match[1], 60) ELSE Hours(0, 1))
        ELSE IF Contains(low_date, "hora")
        THEN (IF match # <<>> THEN Hours(match[1], 1) ELSE Hours(1, 1))
        ELSE IF Contains(low_date, "ayer")
        THEN Hours(24, 1)
        ELSE IF Contains(low_date, "día") \/ Contains(low_date, "dia")
        THEN (IF match # <<>> THEN Hours(match[1] * 24, 1) ELSE Hours(24, 1))
        ELSE Hours(999, 1)

\* job_age > max_age_hours
OlderThan(job_age, max_age_hours) == job_age.num > max_age_hours * job_age.den

\* listing entries whose postedDate tells an age
DatedJobs ==
    { [url |-> <<U43>>, title |-> <<"T3">>, short_description |-> <<"D">>,
       budget |-> <<"B">>, date |-> <<"Hace", SP, "3", SP, "horas">>],
      [url |-> <<U42, SP>>, title |-> <<"T">>, short_description |-> <<"D">>,
       budget |-> <<"B">>, date |-> <<"Ayer">>],
      [url |-> <<U42, "?", "ref=abc">>, title |-> <<"T">>, short_description |-> <<"D">>,
       budget |-> <<"B">>, date |-> <<"Hace", SP, "30", SP, "minutos">>],
      [url |-> <<U43>>, title |-> <<"T">>, short_description |-> <<"D">>,
       budget |-> <<"B">>, date |-> <<"Hace", SP, "2", SP, "días">>] }

\* description.replace("<br/>", " ")
RECURSIVE ReplaceBr(_)
ReplaceBr(text) ==
    IF text = <<>> THEN <<>>
    ELSE <<IF Head(text) = "<br/>" THEN SP ELSE Head(text)>> \o ReplaceBr(Tail(text))

\* the jobs parse_jobs of workana_scraper.py can find on a listing page: the
\* url is the href as it stands, or is built from the slug, and the
\* description has its <br/> replaced and is stripped
LegacyScrapeJobs ==
    DatedJobs \cup
    {[j EXCEPT !.short_description = Strip(ReplaceBr(@))] : j \in {r \in RawJobs : "url" \in DOMAIN r}}

\* the jobs parse_jobs of huntly/workana/scraper.py can find: it drops the
\* entries whose link does not start with "http"
ScrapeJobs == {j \in LegacyScrapeJobs : StartsWithHttp(j.url)}

\* page_jobs of one listing page
LegacyPages == {<<j>> : j \in LegacyScrapeJobs} \cup {<<j, k>> : j, k \in LegacyScrapeJobs}
Pages == {<<j>> : j \in ScrapeJobs} \cup {<<j, k>> : j, k \in ScrapeJobs}

\* the rows csv.DictReader gives for the csv of an earlier run: the file is
\* missing or empty, or has a url column, or has none
CsvFiles ==
    { <<>>,
      <<[url |-> <<SP, U42, SP>>], [url |-> <<>>], [url |-> <<U43, "?", "ref=abc">>]>>,
      <<[title |-> <<"T">>]>> }

\* load_seen_urls of huntly/workana/scraper.py: the stripped non-empty urls
RECURSIVE load_seen_urls(_)
load_seen_urls(rows) ==
    IF rows = <<>> THEN {}
    ELSE LET url == Strip(GetUrl(Head(rows)))
         IN  (IF url # <<>> THEN {url} ELSE {}) \cup load_seen_urls(Tail(rows))

\* load_seen_urls of workana_scraper.py: the url of every row that has one,
\* as it stands
RECURSIVE legacy_load_seen_urls(_)
legacy_load_seen_urls(rows) ==
    IF rows = <<>> THEN {}
    ELSE (IF "url" \in DOMAIN Head(rows) THEN {Head(rows).url} ELSE {})
         \cup legacy_load_seen_urls(Tail(rows))

\* job_url in seen_urls
SeenNever(job_url, seen) == FALSE
SeenBefore(job_url, seen) == job_url \in seen

\* the first loop of scrape over page_jobs: new_jobs and seen_urls after it
RECURSIVE FilterNew(_, _, _, _, _)
FilterNew(page, seen, new, skip, ageOn) ==
    IF page = <<>> THEN [new |-> new, seen |-> seen, skip |-> skip]
    ELSE LET job == Head(page)
             job_url == Strip(GetUrl(job))
         IN  IF job_url = <<>>
             THEN FilterNew(Tail(page), seen, new, skip, ageOn)
             ELSE IF SeenBefore(job_url, seen)
             THEN FilterNew(Tail(page), seen, new, skip \cup {job_url}, ageOn)
             ELSE IF ageOn /\ OlderThan(parse_age_to_hours(job.date), MaxAgeHours)
             THEN FilterNew(Tail(page), seen, new, skip, ageOn)
             ELSE FilterNew(Tail(page), seen \cup {job_url}, Append(new, job), skip, ageOn)

\* the same loop of workana_scraper.py: job["url"] is tested and kept as it
\* stands
RECURSIVE LegacyFilterNew(_, _, _, _, _)
LegacyFilterNew(page, seen, new, skip, ageOn) ==
    IF page = <<>> THEN [new |-> new, seen |-> seen, skip |-> skip]
    ELSE LET job == Head(page)
         IN  IF SeenBefore(job.url, seen)
             THEN LegacyFilterNew(Tail(page), seen, new, skip \cup {job.url}, ageOn)
             ELSE IF ageOn /\ OlderThan(parse_age_to_hours(job.date), MaxAgeHours)
             THEN LegacyFilterNew(Tail(page), seen, new, skip, ageOn)
             ELSE LegacyFilterNew(Tail(page), seen \cup {job.url}, Append(new, job), skip, ageOn)

\* the url under which the running scraper keeps a job in seen_urls
JobKey(job) == IF scraper = "legacy" THEN job.url ELSE Strip(GetUrl(job))

\* ---------------------------------------------------- plain notifications
\* cfg of notify: None or empty (not present), or a dict with the two flags
NoConfig == [present |-> FALSE, notify_email |-> FALSE, notify_telegram |-> FALSE]
NotifyConfigs ==
    {NoConfig} \cup
    {[present |-> TRUE, notify_email |-> e, notify_telegram |-> t] : e, t \in BOOLEAN}

\* how the SMTP session of send_email and the POST of send_telegram can end
SendOutcomes == {"ok", "raises"}

\* try / except Exception in send_email and send_telegram: no exception
\* leaves them
SendLetsThrough(outcome) == outcome = "raises"
SendLeaves(outcome) == FALSE

\* notify(subject, body, cfg): the send attempts it makes, in order
notify(cfg, eo, to) ==
    IF ~cfg.present THEN <<>>
    ELSE LET email == IF cfg.notify_email
                      THEN <<[channel |-> "email", outcome |-> eo]>> ELSE <<>>
             telegram == IF cfg.notify_telegram /\ ~(cfg.notify_email /\ SendLeaves(eo))
                         THEN <<[channel |-> "telegram", outcome |-> to]>> ELSE <<>>
         IN  email \o telegram

\* one call of notify by a scraper, about the job kept under the url
\* "about" (<<>> for a notice about no single job); an exception that
\* leaves notify leaves scrape
NotifyLogged(cfg, eo, to, about) ==
    /\ Len(notifyLog) < MaxNotify
    /\ LET attempts == notify(cfg, eo, to)
           raised == \E i \in 1..Len(attempts) : SendLeaves(attempts[i].outcome)
       IN  /\ notifyLog' = Append(notifyLog, [cfg |-> cfg, attempts |-> attempts,
                                              raised |-> raised, about |-> about])
           /\ producer' = IF raised THEN "raised" ELSE producer

\* a scraper calls notify
NotifyCall(cfg, eo, to) ==
    /\ producer = "running"
    /\ NotifyLogged(cfg, eo, to, <<>>)
    /\ UNCHANGED <<store, clock, telegramEnabled, nIngest, loopVars, entryJob, idLog, loopHist,
                   handlerVars, handlerHist, seenUrls, pending, handled, skipped, nPages,
                   maxAgeOn, scraper, spc, notifyCfg, newJobs, toNotify, nAllJobs>>

\* ---------------------------------------------------------- the page loop
\* if notify_config and notify_config.get("notify_email")
ScrapeNotifies(cfg) == cfg.present /\ cfg.notify_email

\* if notify_config
LegacyScrapeNotifies(cfg) == cfg.present

\* the start of huntly/workana/scraper.py: seen = load_seen_urls(csv_path),
\* and the arguments every scrape call of the run gets
Start(rows, cfg, ageOn) ==
    /\ spc = "start"
    /\ producer = "running"
    /\ scraper' = "huntly"
    /\ seenUrls' = load_seen_urls(rows)
    /\ notifyCfg' = cfg
    /\ maxAgeOn' = ageOn
    /\ spc' = "fetch"
    /\ UNCHANGED <<storeVars, loopVars, entryJob, idLog, loopHist, handlerVars, handlerHist,
                   pending, handled, skipped, nPages, notifyLog, newJobs, toNotify, nAllJobs>>

\* the start of workana_scraper.py
LegacyStart(rows, cfg, ageOn) ==
    /\ spc = "start"
    /\ producer = "running"
    /\ scraper' = "legacy"
    /\ seenUrls' = legacy_load_seen_urls(rows)
    /\ notifyCfg' = cfg
    /\ maxAgeOn' = ageOn
    /\ spc' = "fetch"
    /\ UNCHANGED <<storeVars, loopVars, entryJob, idLog, loopHist, handlerVars, handlerHist,
                   pending, handled, skipped, nPages, notifyLog, newJobs, toNotify, nAllJobs>>

\* scrape parses one page and filters its jobs; a page with new jobs goes
\* on to the handle_new_job loop
ScanPage(page) ==
    /\ scraper = "huntly"
    /\ spc = "fetch"
    /\ producer = "running"
    /\ nPages < MaxPages
    /\ LET r == FilterNew(page, seenUrls, <<>>, skipped, maxAgeOn) IN
       /\ seenUrls' = r.seen
       /\ skipped' = r.skip
       /\ nAllJobs' = nAllJobs + Len(r.new)
       /\ IF r.new # <<>>
          THEN /\ newJobs' = r.new
               /\ pending' = r.new
               /\ spc' = "handle"
          ELSE UNCHANGED <<newJobs, pending, spc>>
    /\ nPages' = nPages + 1
    /\ UNCHANGED <<storeVars, loopVars, entryJob, idLog, loopHist, handlerVars, handlerHist,
                   handled, notifyLog, maxAgeOn, scraper, notifyCfg, toNotify>>

\* scrape of workana_scraper.py parses one page and filters its jobs; it
\* has no handle_new_job loop, a page with new jobs goes on to the notify
\* loop
LegacyScanPage(page) ==
    /\ scraper = "legacy"
    /\ spc = "fetch"
    /\ producer = "running"
    /\ nPages < MaxPages
    /\ LET r == LegacyFilterNew(page, seenUrls, <<>>, skipped, maxAgeOn) IN
       /\ seenUrls' = r.seen
       /\ skipped' = r.skip
       /\ nAllJobs' = nAllJobs + Len(r.new)
       /\ IF r.new # <<>> /\ LegacyScrapeNotifies(notifyCfg)
          THEN /\ newJobs' = r.new
               /\ toNotify' = r.new
               /\ spc' = "notify"
          ELSE UNCHANGED <<newJobs, toNotify, spc>>
    /\ nPages' = nPages + 1
    /\ UNCHANGED <<storeVars, loopVars, entryJob, idLog, loopHist, handlerVars, handlerHist,
                   handled, notifyLog, maxAgeOn, scraper, notifyCfg, pending>>

\* for job in new_jobs: handle_new_job(job); after the last job the notify
\* loop, when notify_config asks for it
HandleNext ==
    /\ spc = "handle"
    /\ pending # <<>>
    /\ HandleNewJob(Head(pending))
    /\ pending' = Tail(pending)
    /\ handled' = Append(handled, Strip(GetUrl(Head(pending))))
    /\ IF producer' = "raised" \/ Tail(pending) # <<>>
       THEN UNCHANGED <<spc, newJobs, toNotify>>
       ELSE IF ScrapeNotifies(notifyCfg)
       THEN /\ spc' = "notify"
            /\ toNotify' = newJobs
            /\ UNCHANGED newJobs
       ELSE /\ spc' = "fetch"
            /\ newJobs' = <<>>
            /\ UNCHANGED toNotify
    /\ UNCHANGED <<seenUrls, skipped, nPages, maxAgeOn, notifyLog, scraper, notifyCfg, nAllJobs>>

\* for job in new_jobs: notifications.notify(...)
NotifyNext ==
    /\ spc = "notify"
    /\ toNotify # <<>>
    /\ producer = "running"
    /\ \E eo \in SendOutcomes, to \in SendOutcomes :
          NotifyLogged(notifyCfg, eo, to, JobKey(Head(toNotify)))
    /\ toNotify' = Tail(toNotify)
    /\ IF Tail(toNotify) = <<>>
       THEN spc' = "fetch" /\ newJobs' = <<>>
       ELSE UNCHANGED <<spc, newJobs>>
    /\ UNCHANGED <<store, clock, telegramEnabled, nIngest, loopVars, entryJob, idLog, loopHist,
                   handlerVars, handlerHist, seenUrls, pending, handled, skipped, nPages,
                   maxAgeOn, scraper, notifyCfg, nAllJobs>>

\* the page loop ends (fetch_page gave None, the page had no jobs, or
\* max_pages is reached); with new jobs found in this pass, the closing
\* notice when notify_config asks for it
EndCycle ==
    /\ spc = "fetch"
    /\ producer = "running"
    /\ IF nAllJobs > 0 /\ (IF scraper = "legacy" THEN LegacyScrapeNotifies(notifyCfg)
                                                  ELSE ScrapeNotifies(notifyCfg))
       THEN \E eo \in SendOutcomes, to \in SendOutcomes :
               NotifyLogged(notifyCfg, eo, to, <<>>)
       ELSE UNCHANGED <<notifyLog, producer>>
    /\ spc' = "done"
    /\ UNCHANGED <<store, clock, telegramEnabled, nIngest, loopVars, entryJob, idLog, loopHist,
                   handlerVars, handlerHist, seenUrls, pending, handled, skipped, nPages,
                   maxAgeOn, scraper, notifyCfg, newJobs, toNotify, nAllJobs>>

\* watch mode: the next scrape call, with the same seen_urls
NextCycle ==
    /\ spc = "done"
    /\ producer = "running"
    /\ spc' = "fetch"
    /\ nAllJobs' = 0
    /\ UNCHANGED <<storeVars, loopVars, entryJob, idLog, loopHist, handlerVars, handlerHist,
                   seenUrls, pending, handled, skipped, nPages, maxAgeOn, notifyLog, scraper,
                   notifyCfg, newJobs, toNotify>>

Load == \E rows \in CsvFiles, cfg \in NotifyConfigs, ageOn \in BOOLEAN :
            Start(rows, cfg, ageOn) \/ LegacyStart(rows, cfg, ageOn)

Scan == (\E page \in Pages : ScanPage(page)) \/ (\E page \in LegacyPages : LegacyScanPage(page))

Notify == \E cfg \in NotifyConfigs, eo \in SendOutcomes, to \in SendOutcomes :
              NotifyCall(cfg, eo, to)

\* the scraper from its start to the end of a pass, pass after pass
NextScrape == Load \/ Scan \/ HandleNext \/ NotifyNext \/ EndCycle \/ NextCycle

SpecScrape == Init /\ [][NextScrape]_vars

\* notify on every cfg, whatever the scraper that calls it
NextNotify == Notify

SpecNotify == Init /\ [][NextNotify]_vars

\* ================================================================ claims
Entries == 1..Len(entryJob)

\* an entry is resolved once it was delivered or its third attempt failed
Delivered(e) == outcomes[e] # <<>> /\ outcomes[e][Len(outcomes[e])] = "ok"
Exhausted(e) == Len(outcomes[e]) = MaxAttempts /\ \A i \in 1..MaxAttempts : outcomes[e][i] = "fail"

\* C1: entries are delivered in enqueue order: an attempt for entry b has
\* started only if every entry enqueued before b is resolved, that is, was
\* delivered or failed its third attempt
C1_FifoDelivery ==
    \A b \in Entries :
        started[b] > 0 =>
            \A a \in 1..(b - 1) : a \in resolved /\ (Delivered(a) \/ Exhausted(a))

\* an earlier entry needed retries and a later entry has been attempted
C1_Witness ==
    \E a, b \in Entries :
        a < b /\ started[b] > 0 /\ Len(outcomes[a]) >= 2 /\ outcomes[a][1] = "fail"

\* C2: at most one delivery (a send attempt or its backoff wait) is in flight
C2_OneDeliveryInFlight == Cardinality(deliveries) <= 1

\* a delivery is in its backoff wait while another entry waits in the queue
C2_Witness == queue # <<>> /\ \E d \in deliveries : d.phase = "sleep"

\* C3: an entry gets at most three attempts, a resolved entry at least one,
\* and a successful attempt is the last attempt of its entry
C3_AttemptsBounded ==
    \A e \in Entries :
        /\ started[e] <= MaxAttempts
        /\ Len(outcomes[e]) <= started[e]
        /\ e \in resolved => started[e] >= 1 /\ Len(outcomes[e]) = started[e]
        /\ \A i \in 1..Len(outcomes[e]) :
              outcomes[e][i] = "ok" => i = started[e] /\ e \in resolved

\* an entry was delivered by its third attempt
C3_Witness ==
    \E e \in Entries : e \in resolved /\ outcomes[e] = <<"fail", "fail", "ok">>

IngestStep == nIngest' = nIngest + 1

\* C4: a handle_new_job call leaves status and proposal of every record
\* that is already in the store unchanged
C4_ReingestKeepsStatus ==
    [][IngestStep =>
          \A j \in DOMAIN store :
              store'[j].status = store[j].status /\ store'[j].proposal = store[j].proposal]_vars

\* C5: with the channel enabled, at most one notification is enqueued per job id
C5_OneNotificationPerJob ==
    telegramEnabled =>
        \A j \in JobIds : Cardinality({e \in Entries : entryJob[e] = j}) <= 1

\* C6: every submission call carries a non-empty proposal, the stripped
\* proposal the approve action read from the store
C6_NoEmptySubmission ==
    /\ \A c \in submitLog : Strip(c.proposal) # <<>>
    /\ \A h \in Handlers :
          hpc[h] \in {"submit_pending", "submitting"} =>
              hprop[h] # <<>> /\ hprop[h] = Strip(hjob[h].proposal)

\* one approve was rejected for want of a proposal and another reached the
\* submission collaborator
C6_Witness == submitLog # {} /\ \E h \in Handlers : hlast[h] = "no_proposal"

\* C7: when the interest branch reads a job whose stored proposal is
\* non-empty, in whatever status, the action ends there: it calls no
\* generation and leaves the store unchanged
C7_InterestWithProposal ==
    [][\A h \in Handlers :
          (/\ hpc[h] = "int_read" /\ hpc'[h] # "int_read"
           /\ Strip(store[hid[h]].proposal) # <<>>)
          => (/\ store' = store /\ genCalls' = genCalls
              /\ hpc'[h] = "idle" /\ hlast'[h] = "shown")]_vars

\* an interest action re-rendered the proposal of a job that is ignored
C7_Witness ==
    \E h \in Handlers :
        /\ hlast[h] = "shown" /\ hpc[h] = "idle" /\ hid[h] \in DOMAIN store
        /\ store[hid[h]].status = "ignored" /\ store[hid[h]].proposal # <<>>
        /\ genCalls[hid[h]] = 1

\* C8: when generation fails, the interest action does not leave the job in
\* status generating
C8_GenFailureReverts ==
    [][\A h \in Handlers :
          (hpc[h] = "generating" /\ hpc'[h] = "idle" /\ hlast'[h] = "gen_failed")
          => (hid[h] \in DOMAIN store' => store'[hid[h]].status # "generating")]_vars

\* C9: when the submission call of an approve action is over, status is sent
\* if it succeeded and error if it failed, however the failure is reported
C9_SubmitOutcomeStatus ==
    [][\A h \in Handlers :
          (hpc[h] = "submitting" /\ hpc'[h] = "idle" /\ hid[h] \in DOMAIN store')
          => /\ hlast'[h] = "sent" => store'[hid[h]].status = "sent"
             /\ hlast'[h] \in {"submit_false", "submit_raised"}
                   => store'[hid[h]].status = "error"]_vars

\* C10: the submission collaborator is called at most once per approve
\* action: a call is made only by a handler that passed the proposal test
\* and has not called yet, and a handler whose call is over, failed or not,
\* is left without a second call
C10_OneSubmitPerApprove ==
    /\ [](\A j \in JobIds :
             /\ submits[j] <= approves[j]
             /\ approves[j] - submits[j] >=
                   Cardinality({h \in Handlers : hpc[h] = "submit_pending" /\ hid[h] = j}))
    /\ [][/\ submits' # submits =>
               \E h \in Handlers :
                   /\ hpc[h] = "submit_pending" /\ hpc'[h] = "submitting"
                   /\ submits' = [submits EXCEPT ![hid[h]] = @ + 1]
          /\ \A h \in Handlers :
                (hpc[h] = "submitting" /\ hpc'[h] # "submitting")
                => (hpc'[h] = "idle" /\ submits' = submits)]_vars

\* a submission failed, its handler is idle and no second call was made
C10_Witness ==
    \E h \in Handlers :
        /\ hlast[h] \in {"submit_false", "submit_raised"} /\ hpc[h] = "idle"
        /\ submits[hid[h]] = 1 /\ approves[hid[h]] = 1

\* C11 as stated: outside generating, the proposal of a record is non-empty
\* exactly when its status is pending_send or sent
C11_ProposalIffSendable ==
    \A j \in DOMAIN store :
        store[j].status # "generating" =>
            (store[j].proposal # <<>> <=> store[j].status \in {"pending_send", "sent"})

\* C11 (amended): a record with a non-empty proposal is never in
\* pending_interest: its status is pending_send, sent, ignored or error, or
\* generating
C11_ProposalImpliesAdvanced ==
    \A j \in DOMAIN store :
        store[j].proposal # <<>> =>
            store[j].status \in {"pending_send", "sent", "ignored", "error", "generating"}

\* a drafted proposal is kept by a record that was ignored, and by one whose
\* submission failed
C11_Witness ==
    \E j \in DOMAIN store :
        store[j].proposal # <<>> /\ store[j].status \in {"ignored", "error"}

\* C12: a step of an operator action that read its job with status sent,
\* on a job whose status is sent, leaves the status sent
C12_SentIsTerminal ==
    [][\A h \in Handlers :
          (/\ hpc[h] # "idle" /\ hpc'[h] # hpc[h]
           /\ hjob[h].status = "sent" /\ store[hid[h]].status = "sent")
          => store'[hid[h]].status = "sent"]_vars

\* C13: a step of an operator action that read its job with status ignored,
\* on a job whose status is ignored, leaves the status ignored and calls no
\* collaborator
C13_IgnoredIsTerminal ==
    [][\A h \in Handlers :
          (/\ hpc[h] # "idle" /\ hpc'[h] # hpc[h]
           /\ hjob[h].status = "ignored" /\ store[hid[h]].status = "ignored")
          => (/\ store'[hid[h]].status = "ignored"
              /\ genCalls' = genCalls /\ submits' = submits)]_vars

\* an attempt of an enqueued entry ends in this step
AttemptEnds == Len(entryJob') = Len(entryJob) /\ outcomes' # outcomes

\* C14: whatever the outcome of a send attempt, the step that ends it leaves
\* the store and the ingestion side unchanged: no failure of the channel
\* reaches handle_new_job or the record it wrote
C14_DeliveryFailureContained ==
    [][AttemptEnds => (store' = store /\ nIngest' = nIngest /\ idLog' = idLog
                        /\ clock' = clock /\ ready' = ready)]_vars

\* all three attempts of an entry failed and the record of its job is as
\* ingestion wrote it
C14_Witness ==
    \E e \in Entries :
        /\ Exhausted(e) /\ entryJob[e] \in DOMAIN store
        /\ store[entryJob[e]].status = "pending_interest"

\* C15: handle_new_job can complete in every state in which the running
\* producer has a call left, whatever the consumer is doing
C15_EnqueueNeverBlocks == (nIngest < MaxIngest /\ producer = "running") => ENABLED Ingest

\* the producer has a call left while the consumer is in a backoff wait
C15_Witness == nIngest < MaxIngest /\ producer = "running" /\ \E d \in deliveries : d.phase = "sleep" /\ d.remaining > 0

\* C16: under fair scheduling of the loop and the worker, every enqueued
\* entry is eventually resolved, unless the process ends first
C16_EveryEntryResolved ==
    \A n \in 1..MaxIngest : (Len(entryJob) >= n) ~> (n \in resolved \/ producer = "exited")

\* C17: the step in which the third attempt of an entry fails drops the
\* entry, puts the worker back at _queue.get with the queue as it was, and
\* leaves the store, with the record of the entry's job, unchanged
C17_DropAndContinue ==
    [][\A d \in deliveries :
          (/\ d.phase = "send" /\ d.attempt = MaxAttempts
           /\ Len(outcomes'[d.entry.n]) > Len(outcomes[d.entry.n])
           /\ outcomes'[d.entry.n][Len(outcomes'[d.entry.n])] = "fail")
          => (/\ deliveries' = deliveries \ {d}
              /\ d.entry.n \in resolved'
              /\ workerPc' = "get"
              /\ queue' = queue
              /\ store' = store
              /\ d.entry.job_id \in DOMAIN store')]_vars

\* C18: the wait after the i-th failed attempt of an entry is i time units
\* once the next attempt has started, there are at most two waits, one per
\* failure of the first two attempts, and none after the third failure
C18_BackoffWaits ==
    \A e \in Entries :
        /\ Len(slept[e]) =
              Cardinality({i \in 1..Len(outcomes[e]) : i < MaxAttempts /\ outcomes[e][i] = "fail"})
        /\ \A i \in 1..Len(slept[e]) :
              slept[e][i] <= i /\ (started[e] > i => slept[e][i] = i)

\* an entry was dropped after waiting 1 and then 2 time units
C18_Witness ==
    \E e \in Entries : e \in resolved /\ Exhausted(e) /\ slept[e] = <<1, 2>>

\* C19: the job id given to a raw job is the id of its URL with the query
\* string stripped, so two raw jobs whose stripped URLs are equal get the same id
C19_IdFromStrippedUrl ==
    /\ \A a \in idLog : a.job_id = make_job_id(SplitQuery(Strip(a.job.url)))
    /\ \A a, b \in idLog :
          SplitQuery(Strip(a.job.url)) = SplitQuery(Strip(b.job.url)) => a.job_id = b.job_id

\* two raw jobs that differ in query string and title got the same id
C19_Witness ==
    \E a, b \in idLog :
        a.job.url # b.job.url /\ a.job.title # b.job.title /\ a.job_id = b.job_id

\* C20: the store holds one record per job id and per stripped URL: as many
\* records as distinct stripped URLs were ingested
C20_OneRecordPerUrl ==
    /\ \A a \in DOMAIN store : store[a].job_id = a
    /\ \A a, b \in DOMAIN store : store[a].url = store[b].url => a = b
    /\ Cardinality(DOMAIN store) = Cardinality({SplitQuery(Strip(x.job.url)) : x \in idLog})

\* the same URL was ingested twice, with and without query string, and the
\* store holds one record
C20_Witness == Cardinality(idLog) = 2 /\ clock = 3 /\ Cardinality(DOMAIN store) = 1

\* C21: created_at, url, title, description, budget and date of a record
\* that is in the store are the same after every step
C21_SourceFieldsImmutable ==
    [][\A j \in DOMAIN store :
          j \in DOMAIN store' =>
              /\ store'[j].created_at = store[j].created_at
              /\ store'[j].url = store[j].url
              /\ store'[j].title = store[j].title
              /\ store'[j].description = store[j].description
              /\ store'[j].budget = store[j].budget
              /\ store'[j].date = store[j].date]_vars

\* what a handle_new_job call that has no effect leaves unchanged
IngestNoEffect ==
    UNCHANGED <<store, clock, producer, ready, queue, deliveries, entryJob, idLog,
                started, outcomes>>

\* C22 as stated: a handle_new_job call on a raw job whose URL is missing,
\* empty or does not start with http changes neither the store nor the queue
C22_RejectedUrlNoEffect ==
    [][\A job \in RawJobs :
          (HandleNewJob(job) /\ (GetUrl(job) = <<>> \/ ~StartsWithHttp(GetUrl(job))))
          => IngestNoEffect]_vars

\* C22: a handle_new_job call on a raw job whose URL, with surrounding
\* whitespace removed, is empty or does not start with http changes neither
\* the store nor the queue
C22_RejectedStrippedUrlNoEffect ==
    [][\A job \in RawJobs :
          (HandleNewJob(job)
             /\ (Strip(GetUrl(job)) = <<>> \/ ~StartsWithHttp(Strip(GetUrl(job)))))
          => IngestNoEffect]_vars

\* with the channel enabled a call was made and there is neither a record
\* nor a notification
C22_Witness ==
    /\ telegramEnabled /\ nIngest > 0 /\ producer = "running"
    /\ store = <<>> /\ entryJob = <<>> /\ ready = <<>>

\* C23: with the channel disabled, a handle_new_job call on a valid URL whose
\* store write succeeds leaves a record with status pending_interest and
\* leaves the loop's callbacks, the queue and the deliveries unchanged
C23_DisabledChannelStillUpserts ==
    [][\A job \in RawJobs :
          (/\ HandleNewJob(job)
           /\ ~telegramEnabled
           /\ StartsWithHttp(Strip(GetUrl(job)))
           /\ producer' = "running")
          => LET id == make_job_id(SplitQuery(Strip(GetUrl(job)))) IN
             /\ id \in DOMAIN store'
             /\ store'[id].status = "pending_interest"
             /\ store'[id].proposal = <<>>
             /\ UNCHANGED <<ready, queue, deliveries, entryJob>>]_vars

\* with the channel disabled a record was written and nothing was enqueued
C23_Witness ==
    /\ ~telegramEnabled /\ store # <<>>
    /\ ready = <<>> /\ queue = <<>> /\ entryJob = <<>> /\ deliveries = {}

\* C24: when the approve branch reads a job whose stored proposal is empty,
\* the action ends there as rejected, leaves the store unchanged and calls
\* no submission
C24_ApproveEmptyRejected ==
    [][\A h \in Handlers :
          (/\ hpc[h] = "ok_read" /\ hpc'[h] # "ok_read"
           /\ store[hid[h]].proposal = <<>>)
          => (/\ store' = store /\ submits' = submits /\ approves' = approves
              /\ hpc'[h] = "idle" /\ hlast'[h] = "no_proposal")]_vars

\* an approve was rejected on a job in pending_send with an empty proposal
C24_Witness ==
    \E h \in Handlers :
        /\ hlast[h] = "no_proposal" /\ hid[h] \in DOMAIN store
        /\ store[hid[h]].status = "pending_send" /\ store[hid[h]].proposal = <<>>

\* C25: an operator action whose job id is not in the store when on_callback
\* looks it up ends there, rejected unless its acknowledgement raised,
\* leaves the store unchanged and calls neither collaborator
C25_UnknownJobRejected ==
    [][\A h \in Handlers :
          (hpc[h] = "answer" /\ hpc'[h] # "answer" /\ hid[h] \notin DOMAIN store)
          => (/\ store' = store /\ genCalls' = genCalls /\ submits' = submits
              /\ approves' = approves
              /\ hpc'[h] = "idle" /\ hlast'[h] \in {"not_found", "answer_raised"})]_vars

\* an action on an unknown job id was rejected
C25_Witness ==
    \E h \in Handlers : hlast[h] = "not_found" /\ hid[h] \notin DOMAIN store

\* C26: no handle_new_job call ends by raising, and the producer can make
\* its next call as long as it has one left
C26_StoreFailureContained ==
    producer = "running" /\ (nIngest < MaxIngest => ENABLED Ingest)

\* C27: an interest action that reads its job in pending_interest with an
\* empty proposal goes on to write status generating, the write comes before
\* generar_propuesta is called, and when the call returns text t the record
\* gets proposal t stripped and status pending_send
C27_InterestGenerates ==
    [][\A h \in Handlers :
          /\ (/\ hpc[h] = "int_read" /\ hpc'[h] # "int_read"
              /\ store[hid[h]].status = "pending_interest"
              /\ store[hid[h]].proposal = <<>>)
             => (hpc'[h] = "int_write" /\ store' = store /\ genCalls' = genCalls)
          /\ (hpc[h] = "int_write" /\ hpc'[h] # "int_write")
             => (/\ store'[hid[h]].status = "generating"
                 /\ genCalls' = genCalls
                 /\ hpc'[h] = "gen_pending")
          /\ (genCalls' # genCalls /\ hpc'[h] # hpc[h])
             => (hpc[h] = "gen_pending" /\ genCalls'[hid[h]] = genCalls[hid[h]] + 1)
          /\ (hpc[h] = "generating" /\ store' # store)
             => \A content \in RawCompletions :
                   GenReturn(h, content)
                   => (/\ store'[hid[h]].proposal = Strip(generar_propuesta(content))
                       /\ store'[hid[h]].status = "pending_send"
                       /\ hpc'[h] = "idle")]_vars

\* one generation was called for a job and its non-empty result is stored
C27_Witness ==
    \E h \in Handlers :
        /\ hlast[h] = "generated" /\ genCalls[hid[h]] = 1
        /\ store[hid[h]].status = "pending_send" /\ store[hid[h]].proposal # <<>>

\* C28: an ignore action that found its job goes to the write without a
\* test of the status, and the write sets the status of the job to ignored,
\* whatever it was, changes nothing else in the store and calls neither
\* collaborator
C28_IgnoreFromAnyStatus ==
    [][\A h \in Handlers :
          /\ (/\ hpc[h] = "answer" /\ hpc'[h] # "answer" /\ hact[h] = "NO"
              /\ hid[h] \in DOMAIN store /\ hlast'[h] # "answer_raised")
             => (hpc'[h] = "no_write" /\ store' = store)
          /\ (hpc[h] = "no_write" /\ hpc'[h] # "no_write")
             => (/\ DOMAIN store' = DOMAIN store
                 /\ \A j \in DOMAIN store :
                       store'[j] = IF j = hid[h] THEN [store[j] EXCEPT !.status = "ignored"]
                                   ELSE store[j]
                 /\ genCalls' = genCalls /\ submits' = submits /\ approves' = approves
                 /\ hpc'[h] = "idle" /\ hlast'[h] = "ignored")]_vars

\* a job with a drafted proposal was ignored and keeps the proposal
C28_Witness ==
    \E h \in Handlers :
        /\ hlast[h] = "ignored" /\ hid[h] \in DOMAIN store
        /\ store[hid[h]].status = "ignored" /\ store[hid[h]].proposal # <<>>

\* C29: a record that is in the store is in the store after every step, and
\* get_job finds it
C29_NeverRemoved ==
    [][\A j \in DOMAIN store : j \in DOMAIN store' /\ get_job(store', j) # NoJob]_vars

\* two records are in the store and an operator action has changed one
C29_Witness ==
    /\ Cardinality(DOMAIN store) = 2
    /\ \E j \in DOMAIN store : store[j].status = "ignored"

\* C30: the status of every record is one of the six statuses, and a record
\* that enters the store has status pending_interest
C30_StatusDomain ==
    /\ [](\A j \in DOMAIN store : store[j].status \in Statuses)
    /\ [][\A j \in DOMAIN store' \ DOMAIN store :
             store'[j].status = "pending_interest"]_vars

\* a record ended in error while another is as ingestion created it
C30_Witness ==
    \E i, j \in DOMAIN store :
        store[i].status = "error" /\ store[j].status = "pending_interest"

\* the send attempts notify call c made on channel ch
AttemptsOn(c, ch) == {k \in 1..Len(c.attempts) : c.attempts[k].channel = ch}

\* C31: every notify call makes one send attempt on each channel its cfg
\* enables and none on the others, whatever the outcome of the attempts, and
\* no exception leaves it
C31_NotifyBestEffort ==
    \A i \in 1..Len(notifyLog) :
        LET c == notifyLog[i] IN
        /\ ~c.raised
        /\ Cardinality(AttemptsOn(c, "email")) =
              (IF c.cfg.present /\ c.cfg.notify_email THEN 1 ELSE 0)
        /\ Cardinality(AttemptsOn(c, "telegram")) =
              (IF c.cfg.present /\ c.cfg.notify_telegram THEN 1 ELSE 0)

\* the email attempt of a call failed, its telegram attempt was still made
\* and the scraper runs
C31_Witness ==
    /\ producer = "running"
    /\ \E i \in 1..Len(notifyLog) :
          notifyLog[i].attempts = <<[channel |-> "email", outcome |-> "raises"],
                                    [channel |-> "telegram", outcome |-> "ok"]>>

\* C32: an approve action that reads its job in error with a non-empty
\* proposal goes on to the submission, which is called once for it unless
\* the reply before the call raised, and the record gets status sent when
\* that call returns True
C32_ApproveFromError ==
    [][\A h \in Handlers :
          /\ (/\ hpc[h] = "ok_read" /\ hpc'[h] # "ok_read"
              /\ store[hid[h]].status = "error"
              /\ Strip(store[hid[h]].proposal) # <<>>)
             => (/\ hpc'[h] = "submit_pending"
                 /\ approves'[hid[h]] = approves[hid[h]] + 1
                 /\ submits' = submits
                 /\ store' = store)
          /\ (hpc[h] = "submit_pending" /\ hpc'[h] # hpc[h])
             => \/ (hpc'[h] = "submitting" /\ submits'[hid[h]] = submits[hid[h]] + 1)
                \/ (/\ hpc'[h] = "idle" /\ hlast'[h] = "reply_raised"
                    /\ submits' = submits /\ store' = store)
          /\ (hpc[h] = "submitting" /\ hlast'[h] = "sent" /\ hpc'[h] = "idle")
             => (store'[hid[h]].status = "sent" /\ submits' = submits)]_vars

\* the second submission of a job is in flight while its status is error
C32_Witness ==
    \E h \in Handlers :
        /\ hpc[h] = "submitting" /\ store[hid[h]].status = "error"
        /\ submits[hid[h]] = 2 /\ approves[hid[h]] = 2

\* the columns neither set_status nor set_proposal names
SourceFields == {"job_id", "url", "title", "description", "budget", "date", "created_at"}

SameSourceFields(r, q) == \A f \in SourceFields : r[f] = q[f]

ProposalSamples == {<<>>, <<"a">>}

\* C33: on the store of every reachable state, set_status changes only the
\* status of the record of its id and set_proposal only its proposal and
\* status; every other record, and the set of records, stay as they are
C33_PureFieldMutation ==
    \A id \in JobIds, s \in Statuses :
        /\ LET t == set_status(store, id, s) IN
           /\ DOMAIN t = DOMAIN store
           /\ \A k \in DOMAIN store :
                 IF k = id
                 THEN /\ t[k].status = s /\ t[k].proposal = store[k].proposal
                      /\ SameSourceFields(t[k], store[k])
                 ELSE t[k] = store[k]
        /\ \A p \in ProposalSamples :
              LET u == set_proposal(store, id, p, s) IN
              /\ DOMAIN u = DOMAIN store
              /\ \A k \in DOMAIN store :
                    IF k = id
                    THEN /\ u[k].status = s /\ u[k].proposal = p
                         /\ SameSourceFields(u[k], store[k])
                    ELSE u[k] = store[k]

\* one id is known, with a proposal and a status the operator gave it, and
\* the other id is unknown
C33_Witness ==
    /\ Cardinality(DOMAIN store) = 1
    /\ \E j \in DOMAIN store : store[j].status = "sent" /\ store[j].proposal # <<>>

\* C34: send_proposal_to_workana is never called for a job whose status is sent
C34_NoSubmitWhenSent ==
    [][\A h \in Handlers :
          (hpc[h] = "submit_pending" /\ hpc'[h] = "submitting")
          => store[hid[h]].status # "sent"]_vars

\* C35: no generar_propuesta call starts for a job while another call for
\* the same job is in flight
C35_OneGenerationInFlight ==
    [][\A h \in Handlers :
          (hpc[h] = "gen_pending" /\ hpc'[h] = "generating")
          => ~\E g \in Handlers \ {h} : hpc[g] = "generating" /\ hid[g] = hid[h]]_vars

\* C36: when generar_propuesta returns for a job whose status is ignored,
\* the status stays ignored
C36_IgnoreSurvivesGeneration ==
    [][\A h \in Handlers :
          (hpc[h] = "generating" /\ hlast'[h] = "generated" /\ hpc'[h] = "idle"
             /\ store[hid[h]].status = "ignored")
          => store'[hid[h]].status = "ignored"]_vars

\* C37: the job id of every entry handed to the loop, queued, in delivery or
\* resolved has a record in the store, which get_job finds
C37_EntryHasRecord ==
    \A e \in Entries :
        entryJob[e] \in DOMAIN store /\ ~JobNotFound(get_job(store, entryJob[e]))

\* a prompt was delivered for one job after the record of another was written
C37_Witness ==
    /\ Cardinality(DOMAIN store) = 2
    /\ \E e \in Entries : e \in resolved /\ Delivered(e) /\ entryJob[e] \in DOMAIN store

\* the calls of notify about a single job
JobNotices == {i \in 1..Len(notifyLog) : notifyLog[i].about # <<>>}

\* C38: scrape passes every job_url to handle_new_job at most once and
\* notifies about it at most once, every job_url it passed, notified or is
\* about to pass or notify is in seen_urls, and a job_url waiting to be
\* passed (notified) was not passed (notified) before
C38_HandledOncePerUrl ==
    /\ \A i, j \in 1..Len(handled) : handled[i] = handled[j] => i = j
    /\ \A i \in 1..Len(handled) : handled[i] \in seenUrls
    /\ \A k \in 1..Len(pending) :
          /\ Strip(GetUrl(pending[k])) \in seenUrls
          /\ \A i \in 1..Len(handled) : handled[i] # Strip(GetUrl(pending[k]))
          /\ \A l \in 1..Len(pending) :
                Strip(GetUrl(pending[k])) = Strip(GetUrl(pending[l])) => k = l
    /\ \A i, j \in JobNotices : notifyLog[i].about = notifyLog[j].about => i = j
    /\ \A i \in JobNotices : notifyLog[i].about \in seenUrls
    /\ \A k \in 1..Len(toNotify) :
          /\ JobKey(toNotify[k]) \in seenUrls
          /\ \A i \in JobNotices : notifyLog[i].about # JobKey(toNotify[k])
          /\ \A l \in 1..Len(toNotify) : JobKey(toNotify[k]) = JobKey(toNotify[l]) => k = l

\* two pages were parsed, and a job_url that was passed to handle_new_job
\* and notified came up a second time and was skipped
C38_Witness ==
    /\ nPages = 2 /\ pending = <<>> /\ toNotify = <<>>
    /\ \E i \in 1..Len(handled) :
          /\ handled[i] \in skipped
          /\ \E k \in JobNotices : notifyLog[k].about = handled[i]

\* C39: the worker is at _queue.get or awaits a delivery, task_done was
\* called once for every resolved entry and for no other, also for an
\* entry whose exception reached the worker
C39_WorkerSurvives ==
    /\ workerPc \in {"get", "await"}
    /\ workerPc = "await" <=> deliveries # {}
    /\ \A e \in Entries :
          /\ taskDone[e] = (IF e \in resolved THEN 1 ELSE 0)
          /\ e \in caught => e \in resolved
====
